---- MODULE Spec2Model ----
(***************************************************************************)
(* The outline view of the Ginkgo extension: the TreeDataProvider of       *)
(* src/src/treeDataProvider.ts (cache of the outline, document and editor  *)
(* listeners, debounce timer, click disambiguation), the outliner of       *)
(* src/unnamed/part_000 (callGinkgoOutline, fromJSON, preOrder,            *)
(* isGinkgoImportsNotFoundError) and the quick-pick of                     *)
(* src/src/symbolPicker.ts (fromTextEditor).                               *)
(*                                                                         *)
(* One step of the model is one turn of the extension host's event loop:   *)
(* an event handler, a timer callback, or the part of an async function    *)
(* between two awaits.  Time is a discrete clock.  A timer's callback runs *)
(* at its deadline, before any event stamped at or after the deadline.     *)
(***************************************************************************)
EXTENDS Integers, Sequences, FiniteSets, TLC

\* An optional value is the sequence of at most one value: JavaScript's
\* undefined is the empty one.
undefined == <<>>
Some(x) == <<x>>

(***************************************************************************)
(* Bounds of the model                                                     *)
(***************************************************************************)
\* the clock runs from 1 to MaxTime
MaxTime == 4
\* getChildren calls suspended at their await at any one time
MaxInFlight == 2
\* fromTextEditor calls suspended at their await at any one time
MaxPickers == 1
\* timers alive in the runtime at any one time
MaxTimers == 2
\* root nodes of a forest given to fromJSON on its own
MaxRoots == 2
\* nodes of a record in such a forest
MaxChildren == 2

(***************************************************************************)
(* The environment: documents, editors, configuration values               *)
(***************************************************************************)
Docs == {"a_test.go", "b_test.go", "notes.md"}

languageId(doc) == IF doc = "notes.md" THEN "markdown" ELSE "go"

\* vscode.TextEditor: its document and its view column (undefined for an
\* embedded editor)
Editors ==
    { [document |-> "a_test.go", viewColumn |-> Some(1)],
      [document |-> "b_test.go", viewColumn |-> Some(1)],
      [document |-> "notes.md", viewColumn |-> Some(2)],
      [document |-> "b_test.go", viewColumn |-> undefined] }

\* values the configuration can hold for the two durations (milliseconds)
DelayValues == {-1, 0, 2}
ThresholdValues == {-1, 0, 2}

Max(a, b) == IF a >= b THEN a ELSE b

(***************************************************************************)
(* The outliner (src/unnamed/part_000)                                     *)
(***************************************************************************)
\* A GinkgoNode as JSON.parse returns it: start, end and nodes; a record
\* whose JSON has no "nodes" key has no nodes field.
Leaf(s, e) == [start |-> s, end |-> e, nodes |-> <<>>]
Bare(s, e) == [start |-> s, end |-> e]

hasNodes(node) == "nodes" \in DOMAIN node

\* what `ginkgo outline --format=json` can print for a document
JSONOutputs ==
    { <<>>,
      << [start |-> 1, end |-> 9, nodes |-> <<Leaf(2, 4), Leaf(5, 8)>>] >>,
      << Leaf(1, 9) >>,
      << [start |-> 1, end |-> 9, nodes |-> <<Bare(2, 4)>>] >> }

RECURSIVE preOrder(_)
RECURSIVE preOrderAll(_)
\* the nodes f is called with, in call order
preOrder(node) ==
    <<node>> \o (IF hasNodes(node) THEN preOrderAll(node.nodes) ELSE <<>>)

preOrderAll(nodes) ==
    IF nodes = <<>> THEN <<>>
    ELSE preOrder(Head(nodes)) \o preOrderAll(Tail(nodes))

\* JSON.parse makes one object for every record of its input.  An object
\* is named by its place: the indexes that lead to it from the array of
\* the roots.  nodeAt is the record of the object at a place
RECURSIVE nodeAt(_, _)
nodeAt(nodes, path) ==
    IF Len(path) = 1 THEN nodes[Head(path)]
    ELSE nodeAt(nodes[Head(path)].nodes, Tail(path))

RECURSIVE preOrderObjects(_, _)
RECURSIVE preOrderNodes(_, _, _)
\* preOrder over the objects: the objects f is called with, in call
\* order, from the object at path on
preOrderObjects(nested, path) ==
    <<path>> \o (IF hasNodes(nodeAt(nested, path))
                 THEN preOrderNodes(nested, path, 1) ELSE <<>>)

\* the loop over node.nodes, from its c-th node on
preOrderNodes(nested, path, c) ==
    IF c > Len(nodeAt(nested, path).nodes) THEN <<>>
    ELSE preOrderObjects(nested, path \o <<c>>) \o preOrderNodes(nested, path, c + 1)

RECURSIVE visitRoots(_, _)
\* the loop over nested, from its n-th root on
visitRoots(nested, n) ==
    IF n > Len(nested) THEN <<>>
    ELSE preOrderObjects(nested, <<n>>) \o visitRoots(nested, n + 1)

\* the callback's annotation that keeps to the first of n.nodes
annotate_firstOnly(nested, visited) ==
    LET links == UNION { { <<visited[i] \o <<c>>, visited[i]>> :
                             c \in 1..Len(nodeAt(nested, visited[i]).nodes) \cap {1} } :
                         i \in 1..Len(visited) }
    IN  [child \in {l[1] : l \in links} |->
            CHOOSE n \in {l[2] : l \in links} : <<child, n>> \in links]

\* the callback's annotation, over all the objects visited: c.parent = n
\* for every c of n.nodes.  The result maps the objects that were given a
\* parent to it
annotate(nested, visited) ==
    LET links == UNION { { <<visited[i] \o <<c>>, visited[i]>> :
                             c \in 1..Len(nodeAt(nested, visited[i]).nodes) } :
                         i \in 1..Len(visited) }
    IN  [child \in {l[1] : l \in links} |->
            CHOOSE n \in {l[2] : l \in links} : <<child, n>> \in links]

\* fromJSON: the callback iterates n.nodes of every visited node, which
\* throws a TypeError at the first visited node that has no nodes
fromJSON(input) ==
    LET visited == preOrderAll(input)
    IN  IF \E i \in 1..Len(visited) : ~hasNodes(visited[i])
        THEN [threw |-> TRUE, message |-> <<"TypeError: n.nodes is not iterable">>]
        ELSE [threw |-> FALSE, nested |-> input, flat |-> visited]

\* the objects behind what fromJSON(input) returned: objects names the
\* objects flat holds, in its order, and parent is the parent property
\* the callback has given them
heapOf(input) ==
    [objects |-> visitRoots(input, 1),
     parent |-> annotate(input, visitRoots(input, 1))]

\* the outline of the unit test (start and end of its records; the
\* records of its leaves have no "nodes")
sampleOutput ==
    << [start |-> 116, end |-> 605, nodes |->
          << [start |-> 152, end |-> 244, nodes |->
                << [start |-> 182, end |-> 240, nodes |->
                      <<Bare(207, 219), Bare(223, 235)>>] >>],
             [start |-> 247, end |-> 307, nodes |-> <<Bare(276, 303)>>],
             [start |-> 310, end |-> 367, nodes |-> <<Bare(336, 363)>>],
             Bare(370, 396),
             Bare(399, 430),
             Bare(433, 480),
             [start |-> 483, end |-> 541, nodes |-> <<Bare(522, 537)>>],
             [start |-> 544, end |-> 602, nodes |-> <<Bare(583, 598)>>] >>] >>

RECURSIVE withNodes(_)
\* the same outline printed with "nodes":[] in the records that have none
withNodes(nodes) ==
    [i \in 1..Len(nodes) |->
        [start |-> nodes[i].start, end |-> nodes[i].end,
         nodes |-> IF hasNodes(nodes[i]) THEN withNodes(nodes[i].nodes) ELSE <<>>]]

\* the sequences over S of length n at most
SeqsUpTo(S, n) == UNION {[1..k -> S] : k \in 0..n}

\* the inputs of fromJSON on its own: the forests of up to MaxRoots trees
\* of a root with up to MaxChildren leaves, with and without "nodes" in
\* the leaves, and the outline of the unit test
Leaves == {Leaf(2, 4), Bare(5, 8)}
Trees ==
    Leaves \cup {[start |-> 1, end |-> 9, nodes |-> c] : c \in SeqsUpTo(Leaves, MaxChildren)}
Forests == SeqsUpTo(Trees, MaxRoots) \cup {sampleOutput, withNodes(sampleOutput)}

ginkgoImportsNotFoundError == "error creating outline: file does not import ginkgo"

\* the outcomes of the ginkgo process: its stdout, or an error with an
\* optional exit code and optional stderr (the process could not be
\* started, it failed on the file, it found no ginkgo import)
ProcessResults ==
    [err : {FALSE}, stdout : JSONOutputs]
    \cup { [err |-> TRUE, code |-> undefined, stderr |-> undefined],
           [err |-> TRUE, code |-> Some(1), stderr |-> Some("could not parse file")],
           [err |-> TRUE, code |-> Some(1), stderr |-> Some(ginkgoImportsNotFoundError)] }

\* callGinkgoOutline: resolves with stdout, or rejects with the message
\* built from the command, the code and stderr (a message is the sequence
\* of its parts)
callGinkgoOutline(p) ==
    IF p.err
    THEN [rejected |-> TRUE,
          message |-> <<"error running ginkgo">>
                      \o (IF p.code # undefined THEN <<" (error code 1)">> ELSE <<>>)
                      \o (IF p.stderr # undefined THEN <<": ", p.stderr[1]>> ELSE <<>>)]
    ELSE [rejected |-> FALSE, output |-> p.stdout]

\* Outliner.fromDocument: the outline, or the error the promise rejects with
fromDocument(p) ==
    LET called == callGinkgoOutline(p)
    IN  IF called.rejected THEN [ok |-> FALSE, message |-> called.message]
        ELSE LET o == fromJSON(called.output)
             IN  IF o.threw THEN [ok |-> FALSE, message |-> o.message]
                 ELSE [ok |-> TRUE, nested |-> o.nested, flat |-> o.flat]

\* String.prototype.indexOf over a message's parts: the 0-based position
\* of the first occurrence, -1 when there is none
indexOf(message, part) ==
    IF \E i \in 1..Len(message) : message[i] = part
    THEN (CHOOSE i \in 1..Len(message) :
             message[i] = part /\ \A j \in 1..(i - 1) : message[j] # part) - 1
    ELSE -1

isGinkgoImportsNotFoundError(err) ==
    IF err.message = <<>> THEN FALSE
    ELSE indexOf(err.message, ginkgoImportsNotFoundError) > 0

(***************************************************************************)
(* The state                                                               *)
(***************************************************************************)
VARIABLES
    \* TreeDataProvider's fields
    editor,                 \* the bound editor, or undefined
    roots,                  \* the cached outline's root nodes; [] when absent
    lastClickedNode,        \* the node of the last activation, or undefined
    lastClickedTime,        \* Date.now() of the last activation, or undefined
    documentChangedTimer,   \* the handle of the last debounce timer, or undefined
    updateListener,         \* the Disposable of the subscribed document event
    updateOnTypeDelay,
    doubleClickThreshold,
    \* the extension host
    listeners,              \* the document events this provider is subscribed to
    timers,                 \* the timers alive: [id, deadline]
    clock,                  \* Date.now()
    inflight,               \* the getChildren calls suspended at their await
    pickers,                \* the number of fromTextEditor calls suspended at their await
    view,                   \* the root nodes the tree view shows
    out,                    \* what the last step did that its caller or the user observes
    \* history, read by the properties only
    burst,                  \* the current burst of qualifying edits: [first, last, delay]
    owed,                   \* bursts begun minus debounce notifications fired
    rootsStale,             \* roots was written by a fetch issued before the latest invalidation
    lastClass,              \* how the last activation was classified
    input,                  \* a call of fromJSON on its own: its argument
    got                     \* and what it threw or returned, once called

vars == <<editor, roots, lastClickedNode, lastClickedTime, documentChangedTimer,
          updateListener, updateOnTypeDelay, doubleClickThreshold, listeners,
          timers, clock, inflight, pickers, view, out, burst, owed, rootsStale,
          lastClass, input, got>>

UpdateOnValues == {"onSave", "onType"}

\* the document event setUpdateOn subscribes to
eventOf(updateOn) ==
    IF updateOn = "onType" THEN "onDidChangeTextDocument" ELSE "onDidSaveTextDocument"

Nothing == [kind |-> "none"]

\* a timer whose deadline has come runs before anything else does
NoTimerDue == \A t \in timers : t.deadline > clock

(***************************************************************************)
(* constructor: binds the active editor, subscribes per updateOn, clamps   *)
(* the delay; the double-click threshold is stored as given                *)
(***************************************************************************)
Init ==
    /\ editor \in {undefined} \cup {Some(e) : e \in Editors}
    /\ roots = <<>>
    /\ lastClickedNode = undefined
    /\ lastClickedTime = undefined
    /\ documentChangedTimer = undefined
    /\ \E updateOn \in UpdateOnValues :
          /\ updateListener = Some(eventOf(updateOn))
          /\ listeners = {eventOf(updateOn)}
    /\ \E d \in DelayValues : updateOnTypeDelay = Max(d, 0)
    /\ doubleClickThreshold \in ThresholdValues
    /\ timers = {}
    /\ clock = 1
    /\ inflight = <<>>
    /\ pickers = 0
    /\ view = <<>>
    /\ out = Nothing
    /\ burst = undefined
    /\ owed = 0
    /\ rootsStale = FALSE
    /\ lastClass = "none"
    /\ input = <<>>
    /\ got = undefined

(***************************************************************************)
(* Configuration setters                                                   *)
(***************************************************************************)
\* setUpdateOn that subscribes without disposing of the listener it holds
setUpdateOn_noDispose(updateOn) ==
    /\ NoTimerDue
    /\ listeners' = listeners \cup {eventOf(updateOn)}
    /\ updateListener' = Some(eventOf(updateOn))
    /\ out' = Nothing
    /\ UNCHANGED <<input, got>>
    /\ UNCHANGED <<editor, roots, lastClickedNode, lastClickedTime, documentChangedTimer,
                   updateOnTypeDelay, doubleClickThreshold, timers, clock, inflight,
                   pickers, view, burst, owed, rootsStale, lastClass>>

setUpdateOn(updateOn) ==
    /\ NoTimerDue
    /\ listeners' = (IF updateListener # undefined
                     THEN listeners \ {updateListener[1]} ELSE listeners)
                    \cup {eventOf(updateOn)}
    /\ updateListener' = Some(eventOf(updateOn))
    /\ out' = Nothing
    /\ UNCHANGED <<input, got>>
    /\ UNCHANGED <<editor, roots, lastClickedNode, lastClickedTime, documentChangedTimer,
                   updateOnTypeDelay, doubleClickThreshold, timers, clock, inflight,
                   pickers, view, burst, owed, rootsStale, lastClass>>

setUpdateOnTypeDelay(delay) ==
    /\ NoTimerDue
    /\ updateOnTypeDelay' = Max(delay, 0)
    /\ out' = Nothing
    /\ UNCHANGED <<input, got>>
    /\ UNCHANGED <<editor, roots, lastClickedNode, lastClickedTime, documentChangedTimer,
                   updateListener, doubleClickThreshold, listeners, timers, clock,
                   inflight, pickers, view, burst, owed, rootsStale, lastClass>>

setDoubleClickThreshold(threshold) ==
    /\ NoTimerDue
    /\ doubleClickThreshold' = Max(threshold, 0)
    /\ out' = Nothing
    /\ UNCHANGED <<input, got>>
    /\ UNCHANGED <<editor, roots, lastClickedNode, lastClickedTime, documentChangedTimer,
                   updateListener, updateOnTypeDelay, listeners, timers, clock,
                   inflight, pickers, view, burst, owed, rootsStale, lastClass>>

(***************************************************************************)
(* Editor and document listeners.  The handlers change the provider's      *)
(* fields and the timers; the event actions below them add the history.    *)
(***************************************************************************)
\* isMainEditor that takes every editor for a main editor
isMainEditor_anyEditor(e) == TRUE

isMainEditor(e) == e.viewColumn # undefined

\* e is the new active editor, or undefined
onActiveEditorChanged(e) ==
    IF e # undefined /\ ~isMainEditor(e[1])
    THEN /\ out' = Nothing
         /\ UNCHANGED <<editor, roots>>
    ELSE /\ editor' = e
         /\ roots' = <<>>
         /\ out' = [kind |-> "refresh", by |-> "editor"]

isDocumentForActiveEditor(doc) ==
    IF editor = undefined THEN FALSE
    ELSE editor[1].document = doc

\* clearTimeout that removes nothing
clearTimeout_nothing(handle) == timers

\* clearTimeout: the timer, if still alive, is removed
clearTimeout(handle) == {t \in timers : t.id # handle}

\* the handle setTimeout returns: the first one no live timer has
newTimer(alive) == CHOOSE id \in 1..MaxTimers :
                      /\ \A t \in alive : t.id # id
                      /\ \A j \in 1..(id - 1) : \E t \in alive : t.id = j

\* onDocumentChanged without the check of evt.contentChanges.length
onDocumentChanged_anyLength(doc, contentChanges) ==
    IF ~isDocumentForActiveEditor(doc)
    THEN /\ out' = Nothing
         /\ UNCHANGED <<roots, documentChangedTimer, timers>>
    ELSE LET alive == IF documentChangedTimer # undefined
                      THEN clearTimeout(documentChangedTimer[1]) ELSE timers
         IN  /\ Cardinality(alive) < MaxTimers
             /\ roots' = <<>>
             /\ timers' = alive \cup {[id |-> newTimer(alive),
                                       deadline |-> clock + updateOnTypeDelay]}
             /\ documentChangedTimer' = Some(newTimer(alive))
             /\ out' = Nothing

\* onDocumentChanged without the clearTimeout of the pending timer
onDocumentChanged_noClear(doc, contentChanges) ==
    IF ~isDocumentForActiveEditor(doc) \/ contentChanges = 0
    THEN /\ out' = Nothing
         /\ UNCHANGED <<roots, documentChangedTimer, timers>>
    ELSE /\ Cardinality(timers) < MaxTimers
         /\ roots' = <<>>
         /\ timers' = timers \cup {[id |-> newTimer(timers),
                                    deadline |-> clock + updateOnTypeDelay]}
         /\ documentChangedTimer' = Some(newTimer(timers))
         /\ out' = Nothing

\* contentChanges is the length of evt.contentChanges
onDocumentChanged(doc, contentChanges) ==
    IF ~isDocumentForActiveEditor(doc) \/ contentChanges = 0
    THEN /\ out' = Nothing
         /\ UNCHANGED <<roots, documentChangedTimer, timers>>
    ELSE LET alive == IF documentChangedTimer # undefined
                      THEN clearTimeout(documentChangedTimer[1]) ELSE timers
         IN  /\ Cardinality(alive) < MaxTimers
             /\ roots' = <<>>
             /\ timers' = alive \cup {[id |-> newTimer(alive),
                                       deadline |-> clock + updateOnTypeDelay]}
             /\ documentChangedTimer' = Some(newTimer(alive))
             /\ out' = Nothing

\* onDocumentSaved that notifies and leaves the cache as it is
onDocumentSaved_keepsCache(doc) ==
    IF ~isDocumentForActiveEditor(doc)
    THEN /\ out' = Nothing
         /\ UNCHANGED roots
    ELSE /\ out' = [kind |-> "refresh", by |-> "save"]
         /\ UNCHANGED roots

onDocumentSaved(doc) ==
    IF ~isDocumentForActiveEditor(doc)
    THEN /\ out' = Nothing
         /\ UNCHANGED roots
    ELSE /\ roots' = <<>>
         /\ out' = [kind |-> "refresh", by |-> "save"]

\* History of an event that invalidates the cache: every getChildren
\* call suspended now was issued before it, and so was what roots holds
Invalidated ==
    /\ inflight' = [i \in 1..Len(inflight) |-> [inflight[i] EXCEPT !.stale = TRUE]]
    /\ rootsStale' = (roots' # <<>>)

\* vscode.window.onDidChangeActiveTextEditor
DidChangeActiveTextEditor(e) ==
    /\ NoTimerDue
    /\ onActiveEditorChanged(e)
    /\ IF e = undefined \/ e[1].viewColumn # undefined
       THEN Invalidated
       ELSE UNCHANGED <<inflight, rootsStale>>
    /\ UNCHANGED <<input, got>>
    /\ UNCHANGED <<lastClickedNode, lastClickedTime, documentChangedTimer, updateListener,
                   updateOnTypeDelay, doubleClickThreshold, listeners, timers, clock,
                   pickers, view, burst, owed, lastClass>>

\* a content-change event of the bound editor's document that changes
\* something, in mode onType
QualifyingEdit(doc, contentChanges) ==
    /\ "onDidChangeTextDocument" \in listeners
    /\ editor # undefined
    /\ editor[1].document = doc
    /\ contentChanges > 0

\* the edit starts a burst unless it comes before the previous edit's
\* delay has run out
StartsBurst == burst = undefined \/ clock - burst[1].last >= burst[1].delay

\* vscode.workspace.onDidChangeTextDocument: delivered to the subscribed listener
DidChangeTextDocument(doc, contentChanges) ==
    /\ NoTimerDue
    /\ IF "onDidChangeTextDocument" \in listeners
       THEN onDocumentChanged(doc, contentChanges)
       ELSE /\ out' = Nothing
            /\ UNCHANGED <<roots, documentChangedTimer, timers>>
    /\ IF QualifyingEdit(doc, contentChanges)
       THEN /\ Invalidated
            /\ burst' = Some([first |-> IF StartsBurst THEN clock ELSE burst[1].first,
                              last |-> clock, delay |-> updateOnTypeDelay])
            /\ owed' = IF StartsBurst THEN owed + 1 ELSE owed
       ELSE UNCHANGED <<inflight, rootsStale, burst, owed>>
    /\ UNCHANGED <<input, got>>
    /\ UNCHANGED <<editor, lastClickedNode, lastClickedTime, updateListener,
                   updateOnTypeDelay, doubleClickThreshold, listeners, clock, pickers, view, lastClass>>

\* vscode.workspace.onDidSaveTextDocument: delivered to the subscribed listener
DidSaveTextDocument(doc) ==
    /\ NoTimerDue
    /\ IF "onDidSaveTextDocument" \in listeners
       THEN onDocumentSaved(doc)
       ELSE /\ out' = Nothing
            /\ UNCHANGED roots
    /\ IF "onDidSaveTextDocument" \in listeners /\ editor # undefined
          /\ editor[1].document = doc
       THEN Invalidated
       ELSE UNCHANGED <<inflight, rootsStale>>
    /\ UNCHANGED <<input, got>>
    /\ UNCHANGED <<editor, lastClickedNode, lastClickedTime, documentChangedTimer,
                   updateListener, updateOnTypeDelay, doubleClickThreshold, listeners,
                   timers, clock, pickers, view, burst, owed, lastClass>>

\* the debounce timer's callback: () => this._onDidChangeTreeData.fire(undefined)
timerCallback(t) ==
    /\ t.deadline <= clock
    /\ timers' = timers \ {t}
    /\ out' = [kind |-> "refresh", by |-> "timer"]
    /\ owed' = owed - 1
    /\ UNCHANGED <<input, got>>
    /\ UNCHANGED <<editor, roots, lastClickedNode, lastClickedTime, documentChangedTimer,
                   updateListener, updateOnTypeDelay, doubleClickThreshold, listeners,
                   clock, inflight, pickers, view, burst, rootsStale, lastClass>>

\* a millisecond passes; no timer is left behind its deadline
Tick ==
    /\ NoTimerDue
    /\ clock < MaxTime
    /\ clock' = clock + 1
    /\ out' = Nothing
    /\ UNCHANGED <<input, got>>
    /\ UNCHANGED <<editor, roots, lastClickedNode, lastClickedTime, documentChangedTimer,
                   updateListener, updateOnTypeDelay, doubleClickThreshold, listeners,
                   timers, inflight, pickers, view, burst, owed, rootsStale, lastClass>>

(***************************************************************************)
(* getChildren: up to its await, and from the await on                     *)
(***************************************************************************)
\* the step called outlineFromDoc and is suspended at the await
Fetching(caller) == [kind |-> "fetch", by |-> caller]

\* getChildren returns value to the tree view; awaited tells whether the
\* call had invoked outlineFromDoc.  A request for the roots replaces what
\* the view shows
return(element, value, awaited) ==
    /\ out' = [kind |-> "children", value |-> value, fetched |-> awaited,
               notified |-> FALSE]
    /\ view' = IF element # undefined THEN view
               ELSE IF value = undefined THEN <<>> ELSE value[1]

\* the catch block: the error is logged, the error message is shown, and
\* getChildren returns undefined
catch(element, err) ==
    /\ out' = [kind |-> "children", value |-> undefined, fetched |-> TRUE,
               notified |-> TRUE, logged |-> err.message]
    /\ view' = IF element # undefined THEN view ELSE <<>>

\* what getChildren answers from the root nodes: them, or element.nodes
slice(element, nested) ==
    IF element = undefined THEN Some(nested)
    ELSE IF hasNodes(element[1]) THEN Some(element[1].nodes) ELSE undefined

\* getChildren that calls outlineFromDoc whatever roots holds
getChildren_noCache(element) ==
    /\ NoTimerDue
    /\ IF editor = undefined
       THEN return(element, undefined, FALSE) /\ UNCHANGED inflight
       ELSE IF languageId(editor[1].document) # "go"
       THEN return(element, undefined, FALSE) /\ UNCHANGED inflight
       ELSE /\ Len(inflight) < MaxInFlight
            /\ inflight' = Append(inflight, [element |-> element, stale |-> FALSE])
            /\ out' = Fetching("getChildren")
            /\ UNCHANGED view
    /\ UNCHANGED <<input, got>>
    /\ UNCHANGED <<editor, roots, lastClickedNode, lastClickedTime, documentChangedTimer,
                   updateListener, updateOnTypeDelay, doubleClickThreshold, listeners,
                   timers, clock, pickers, burst, owed, rootsStale, lastClass>>

\* element is undefined for the roots, or a node the view shows
getChildren(element) ==
    /\ NoTimerDue
    /\ IF editor = undefined
       THEN return(element, undefined, FALSE) /\ UNCHANGED inflight
       ELSE IF languageId(editor[1].document) # "go"
       THEN return(element, undefined, FALSE) /\ UNCHANGED inflight
       ELSE IF Len(roots) = 0
       THEN /\ Len(inflight) < MaxInFlight
            /\ inflight' = Append(inflight, [element |-> element, stale |-> FALSE])
            /\ out' = Fetching("getChildren")
            /\ UNCHANGED view
       ELSE return(element, slice(element, roots), FALSE) /\ UNCHANGED inflight
    /\ UNCHANGED <<input, got>>
    /\ UNCHANGED <<editor, roots, lastClickedNode, lastClickedTime, documentChangedTimer,
                   updateListener, updateOnTypeDelay, doubleClickThreshold, listeners,
                   timers, clock, pickers, burst, owed, rootsStale, lastClass>>

\* the suspended calls without call i
without(i) ==
    [j \in 1..(Len(inflight) - 1) |-> IF j < i THEN inflight[j] ELSE inflight[j + 1]]

\* getChildrenResume that remembers a failure in roots
getChildrenResume_cachesFailure(i, p) ==
    /\ NoTimerDue
    /\ LET call == inflight[i]
           outline == fromDocument(p)
       IN  /\ inflight' = without(i)
           /\ IF outline.ok
              THEN /\ roots' = outline.nested
                   /\ rootsStale' = call.stale
                   /\ return(call.element, slice(call.element, outline.nested), TRUE)
              ELSE /\ catch(call.element, outline)
                   /\ roots' = <<Leaf(0, 0)>>
                   /\ UNCHANGED rootsStale
    /\ UNCHANGED <<input, got>>
    /\ UNCHANGED <<editor, lastClickedNode, lastClickedTime, documentChangedTimer,
                   updateListener, updateOnTypeDelay, doubleClickThreshold, listeners,
                   timers, clock, pickers, burst, owed, lastClass>>

\* the suspended call i resumes with outlineFromDoc's promise settled by p
getChildrenResume(i, p) ==
    /\ NoTimerDue
    /\ LET call == inflight[i]
           outline == fromDocument(p)
       IN  /\ inflight' = without(i)
           /\ IF outline.ok
              THEN /\ roots' = outline.nested
                   /\ rootsStale' = call.stale
                   /\ return(call.element, slice(call.element, outline.nested), TRUE)
              ELSE /\ catch(call.element, outline)
                   /\ UNCHANGED <<roots, rootsStale>>
    /\ UNCHANGED <<input, got>>
    /\ UNCHANGED <<editor, lastClickedNode, lastClickedTime, documentChangedTimer,
                   updateListener, updateOnTypeDelay, doubleClickThreshold, listeners,
                   timers, clock, pickers, burst, owed, lastClass>>

(***************************************************************************)
(* clickTreeItem                                                           *)
(***************************************************************************)
\* wasRecentlyClicked with the threshold itself counted as recent
wasRecentlyClicked_inclusive(threshold, lastNode, lastTime, currentNode, currentTime) ==
    LET isSameNode == lastNode.start = currentNode.start /\ lastNode.end = currentNode.end
        recently == (currentTime - lastTime) <= threshold
    IN  isSameNode /\ recently

\* wasRecentlyClicked with the comparison turned around
wasRecentlyClicked_inverted(threshold, lastNode, lastTime, currentNode, currentTime) ==
    LET isSameNode == lastNode.start = currentNode.start /\ lastNode.end = currentNode.end
        recently == (currentTime - lastTime) > threshold
    IN  isSameNode /\ recently

\* wasRecentlyClicked that takes two nodes for the same when their records
\* are equal
wasRecentlyClicked_wholeNode(threshold, lastNode, lastTime, currentNode, currentTime) ==
    LET isSameNode == lastNode = currentNode
        recently == (currentTime - lastTime) < threshold
    IN  isSameNode /\ recently

wasRecentlyClicked(threshold, lastNode, lastTime, currentNode, currentTime) ==
    LET isSameNode == lastNode.start = currentNode.start /\ lastNode.end = currentNode.end
        recently == (currentTime - lastTime) < threshold
    IN  isSameNode /\ recently

\* JavaScript's truth of an optional number: undefined and 0 are false
truthy(n) == n # undefined /\ n[1] # 0

\* History of an activation: what it is compared with.  The recorded
\* activation, if there is one: whether its node has the (start, end) of
\* this one, whether its node's record equals this one's (if not, the two
\* are objects of two fetches), how long ago it was and how it was
\* classified
Prior(element) ==
    IF lastClickedNode = undefined \/ lastClickedTime = undefined THEN undefined
    ELSE Some([same |-> /\ lastClickedNode[1].start = element.start
                        /\ lastClickedNode[1].end = element.end,
               identical |-> lastClickedNode[1] = element,
               elapsed |-> clock - lastClickedTime[1],
               class |-> lastClass])

\* clickTreeItem that forgets the recorded activation after a Navigate
clickTreeItem_resetsAfterNavigate(element) ==
    /\ NoTimerDue
    /\ IF editor = undefined
       THEN /\ out' = Nothing
            /\ UNCHANGED <<lastClickedNode, lastClickedTime, lastClass>>
       ELSE LET now == clock
                recentlyClicked ==
                    IF truthy(lastClickedTime) /\ lastClickedNode # undefined
                    THEN wasRecentlyClicked(doubleClickThreshold, lastClickedNode[1],
                                            lastClickedTime[1], element, now)
                    ELSE FALSE
                class == IF recentlyClicked THEN "Navigate" ELSE "Highlight"
            IN  /\ lastClickedTime' = IF recentlyClicked THEN undefined ELSE Some(now)
                /\ lastClickedNode' = IF recentlyClicked THEN undefined ELSE Some(element)
                /\ out' = [kind |-> "click", class |-> class, node |-> element,
                           prior |-> Prior(element)]
                /\ lastClass' = class
    /\ UNCHANGED <<input, got>>
    /\ UNCHANGED <<editor, roots, documentChangedTimer, updateListener, updateOnTypeDelay,
                   doubleClickThreshold, listeners, timers, clock, inflight, pickers,
                   view, burst, owed, rootsStale>>

clickTreeItem(element) ==
    /\ NoTimerDue
    /\ IF editor = undefined
       THEN /\ out' = Nothing
            /\ UNCHANGED <<lastClickedNode, lastClickedTime, lastClass>>
       ELSE LET now == clock
                recentlyClicked ==
                    IF truthy(lastClickedTime) /\ lastClickedNode # undefined
                    THEN wasRecentlyClicked(doubleClickThreshold, lastClickedNode[1],
                                            lastClickedTime[1], element, now)
                    ELSE FALSE
                class == IF recentlyClicked THEN "Navigate" ELSE "Highlight"
            IN  /\ lastClickedTime' = Some(now)
                /\ lastClickedNode' = Some(element)
                /\ out' = [kind |-> "click", class |-> class, node |-> element,
                           prior |-> Prior(element)]
                /\ lastClass' = class
    /\ UNCHANGED <<input, got>>
    /\ UNCHANGED <<editor, roots, documentChangedTimer, updateListener, updateOnTypeDelay,
                   doubleClickThreshold, listeners, timers, clock, inflight, pickers,
                   view, burst, owed, rootsStale>>

(***************************************************************************)
(* fromTextEditor (the quick-pick): up to its await, and from the await on *)
(***************************************************************************)
fromTextEditor(e) ==
    /\ NoTimerDue
    /\ IF languageId(e.document) # "go"
       THEN /\ out' = [kind |-> "quickPick", items |-> <<>>]
            /\ UNCHANGED pickers
       ELSE /\ pickers < MaxPickers
            /\ pickers' = pickers + 1
            /\ out' = Fetching("fromTextEditor")
    /\ UNCHANGED <<input, got>>
    /\ UNCHANGED <<editor, roots, lastClickedNode, lastClickedTime, documentChangedTimer,
                   updateListener, updateOnTypeDelay, doubleClickThreshold, listeners,
                   timers, clock, inflight, view, burst, owed, rootsStale, lastClass>>

\* a suspended call resumes with outlineFromDoc's promise settled by p; a
\* rejection is rethrown by the await and rejects fromTextEditor's promise
fromTextEditorResume(p) ==
    /\ NoTimerDue
    /\ pickers > 0
    /\ pickers' = pickers - 1
    /\ LET outline == fromDocument(p)
       IN  out' = IF outline.ok
                  THEN [kind |-> "quickPick", items |-> outline.flat]
                  ELSE [kind |-> "rejected", message |-> outline.message]
    /\ UNCHANGED <<input, got>>
    /\ UNCHANGED <<editor, roots, lastClickedNode, lastClickedTime, documentChangedTimer,
                   updateListener, updateOnTypeDelay, doubleClickThreshold, listeners,
                   timers, clock, inflight, view, burst, owed, rootsStale, lastClass>>

(***************************************************************************)
(* The specification                                                       *)
(***************************************************************************)
\* the nodes the tree view shows
shown == LET nodes == preOrderAll(view) IN {nodes[i] : i \in 1..Len(nodes)}

\* the inputs of each operation
SetUpdateOn == \E updateOn \in UpdateOnValues : setUpdateOn(updateOn)
SetUpdateOnTypeDelay == \E d \in DelayValues : setUpdateOnTypeDelay(d)
SetDoubleClickThreshold == \E t \in ThresholdValues : setDoubleClickThreshold(t)
ActiveEditorChanged ==
    \E e \in {undefined} \cup {Some(x) : x \in Editors} : DidChangeActiveTextEditor(e)
DocumentChanged == \E doc \in Docs, n \in {0, 1} : DidChangeTextDocument(doc, n)
DocumentSaved == \E doc \in Docs : DidSaveTextDocument(doc)
TimerFires == \E t \in timers : timerCallback(t)
GetChildren ==
    \E element \in {undefined} \cup {Some(n) : n \in {m \in shown : hasNodes(m) /\ m.nodes # <<>>}} :
        getChildren(element)
GetChildrenResume ==
    \E i \in 1..Len(inflight), p \in ProcessResults : getChildrenResume(i, p)
ClickTreeItem == \E n \in shown : clickTreeItem(n)
FromTextEditor == \E e \in Editors : fromTextEditor(e)
FromTextEditorResume == \E p \in ProcessResults : fromTextEditorResume(p)

\* every operation
Next ==
    \/ SetUpdateOn
    \/ SetUpdateOnTypeDelay
    \/ SetDoubleClickThreshold
    \/ ActiveEditorChanged
    \/ DocumentChanged
    \/ DocumentSaved
    \/ TimerFires
    \/ Tick
    \/ GetChildren
    \/ GetChildrenResume
    \/ ClickTreeItem
    \/ FromTextEditor
    \/ FromTextEditorResume

Spec == Init /\ [][Next]_vars

\* The change-triggering policy alone: the listeners, the debounce timer
\* and the clock, with no presenter reading the outline
NextTrigger ==
    \/ SetUpdateOn
    \/ SetUpdateOnTypeDelay
    \/ ActiveEditorChanged
    \/ DocumentChanged
    \/ DocumentSaved
    \/ TimerFires
    \/ Tick

\* the threshold, which none of these operations reads, is not varied
InitTrigger == Init /\ doubleClickThreshold = 0

SpecTrigger == InitTrigger /\ [][NextTrigger]_vars

\* The outline cache and the two presenters at one instant of the clock
NextCache ==
    \/ SetUpdateOn
    \/ ActiveEditorChanged
    \/ DocumentChanged
    \/ DocumentSaved
    \/ TimerFires
    \/ GetChildren
    \/ GetChildrenResume
    \/ FromTextEditor
    \/ FromTextEditorResume

\* the threshold, which none of these operations reads, is not varied
InitCache == Init /\ doubleClickThreshold = 0

SpecCache == InitCache /\ [][NextCache]_vars

\* a request of the view made when no request is waiting for its answer
GetChildrenInTurn == inflight = <<>> /\ GetChildren

\* The tree view in use: requests (one at a time; SpecCache has them
\* overlap), activations and the switches of editor and the saves that
\* invalidate the cache, with the clock running
NextClick ==
    \/ SetDoubleClickThreshold
    \/ ActiveEditorChanged
    \/ DocumentSaved
    \/ Tick
    \/ GetChildrenInTurn
    \/ GetChildrenResume
    \/ ClickTreeItem

\* the mode and the delay, which none of these operations reads, are not
\* varied
InitClick == Init /\ listeners = {"onDidSaveTextDocument"} /\ updateOnTypeDelay = 0

SpecClick == InitClick /\ [][NextClick]_vars

\* The listeners with the view reading the outline (one request at a
\* time) and the clock running: the cache is filled between the events
\* that invalidate it
NextEvents ==
    \/ SetUpdateOn
    \/ SetUpdateOnTypeDelay
    \/ ActiveEditorChanged
    \/ DocumentChanged
    \/ DocumentSaved
    \/ TimerFires
    \/ Tick
    \/ GetChildrenInTurn
    \/ GetChildrenResume

\* the threshold, which none of these operations reads, is not varied
InitEvents == Init /\ doubleClickThreshold = 0

SpecEvents == InitEvents /\ [][NextEvents]_vars

\* fromJSON called on its own, as the unit test calls it: got is what it
\* threw, or what it returned together with the objects behind it
callFromJSON ==
    /\ got = undefined
    /\ got' = LET outline == fromJSON(input)
              IN  IF outline.threw THEN Some(outline)
                  ELSE Some([threw |-> FALSE, nested |-> outline.nested,
                             flat |-> outline.flat,
                             objects |-> heapOf(input).objects,
                             parent |-> heapOf(input).parent])
    /\ UNCHANGED <<editor, roots, lastClickedNode, lastClickedTime, documentChangedTimer,
                   updateListener, updateOnTypeDelay, doubleClickThreshold, listeners,
                   timers, clock, inflight, pickers, view, out, burst, owed, rootsStale,
                   lastClass, input>>

NextBuilder == callFromJSON

\* no provider is constructed: its fields are at their declared values
InitBuilder ==
    /\ input \in Forests
    /\ got = undefined
    /\ editor = undefined
    /\ roots = <<>>
    /\ lastClickedNode = undefined
    /\ lastClickedTime = undefined
    /\ documentChangedTimer = undefined
    /\ updateListener = undefined
    /\ updateOnTypeDelay = 0
    /\ doubleClickThreshold = 0
    /\ listeners = {}
    /\ timers = {}
    /\ clock = 1
    /\ inflight = <<>>
    /\ pickers = 0
    /\ view = <<>>
    /\ out = Nothing
    /\ burst = undefined
    /\ owed = 0
    /\ rootsStale = FALSE
    /\ lastClass = "none"

SpecBuilder == InitBuilder /\ [][NextBuilder]_vars

(***************************************************************************)
(* Click disambiguation                                                    *)
(***************************************************************************)
\* C1: an activation with a bound editor is classified Navigate exactly
\* when a prior activation is recorded, its node has the (start, end) of
\* the current node and less than the threshold has passed since it;
\* every other activation is classified Highlight.
C1_Classification ==
    out.kind = "click" =>
        /\ out.class \in {"Navigate", "Highlight"}
        /\ out.class = "Navigate" <=>
              /\ out.prior # undefined
              /\ out.prior[1].same
              /\ out.prior[1].elapsed < doubleClickThreshold

\* an activation was classified Navigate some time after the one before
C1_Witness ==
    /\ out.kind = "click" /\ out.class = "Navigate"
    /\ out.prior # undefined /\ out.prior[1].elapsed > 0

\* an activation of the same node as a Highlight before it, at the same
\* timestamp
AtOnceAfterHighlight ==
    /\ out.kind = "click"
    /\ out.prior # undefined
    /\ out.prior[1].same
    /\ out.prior[1].elapsed = 0
    /\ out.prior[1].class = "Highlight"

\* C2 as stated: a Highlight followed at the same timestamp by an
\* activation of the same node is a Navigate, whatever the threshold.
C2_AnyThreshold == AtOnceAfterHighlight => out.class = "Navigate"

\* C2 amended: a Highlight followed at the same timestamp by an
\* activation of the same node is a Navigate for every threshold greater
\* than zero.
C2_PositiveThreshold ==
    (AtOnceAfterHighlight /\ doubleClickThreshold > 0) => out.class = "Navigate"

\* such an activation under a positive threshold
C2_Witness == AtOnceAfterHighlight /\ doubleClickThreshold > 0

(***************************************************************************)
(* Debounce                                                                *)
(***************************************************************************)
RefreshedByTimer == [kind |-> "refresh", by |-> "timer"]

\* the instant the current burst's delay runs out
QuietAt == burst[1].last + burst[1].delay

\* C3: a burst of qualifying edits, each less than the delay after the one
\* before, has one debounce timer pending until its one notification:
\* every burst begun has been notified or has exactly one timer alive,
\* the timer is due the delay after the burst's last edit (each edit has
\* replaced the timer of the edit before), and the notification is fired
\* at that instant.
C3_Debounce ==
    /\ owed \in {0, 1}
    /\ Cardinality(timers) = owed
    /\ \A t \in timers :
          burst # undefined /\ t.deadline = QuietAt /\ clock <= t.deadline
    /\ out = RefreshedByTimer => burst # undefined /\ clock = QuietAt

\* the notification of a burst of edits made at two instants or more
C3_Witness ==
    /\ out = RefreshedByTimer
    /\ burst[1].first < burst[1].last
    /\ clock = QuietAt
    /\ owed = 0 /\ timers = {}

\* C4: once setUpdateOn('onSave') has replaced the onType listener, a
\* debounce timer still pending does not fire a refresh notification: in
\* mode onSave no notification comes from a timer.
C4_SwitchCancelsTimer ==
    listeners = {"onDidSaveTextDocument"} => out # RefreshedByTimer

(***************************************************************************)
(* The outline cache                                                       *)
(***************************************************************************)
BoundToGo == editor # undefined /\ languageId(editor[1].document) = "go"

\* C5: a newer invalidation wins over a fetch in flight: a cached outline
\* was fetched after the latest invalidation of the cache.
C5_NewerInvalidationWins == roots # <<>> => ~rootsStale

\* C6 as stated: between two invalidations at most one fetch is in flight,
\* also when requests arrive while a fetch has not completed.
C6_SingleFetchInFlight == Len(inflight) <= 1

\* C6 amended: a getChildren request calls the parser only when it finds
\* the cache absent, and a request that finds the cache absent always
\* calls it; requests that arrive while a fetch is in flight are not
\* coalesced, each calls the parser itself.
C6_FetchWhenAbsent ==
    /\ out = Fetching("getChildren") => roots = <<>> /\ BoundToGo
    /\ (out.kind = "children" /\ ~out.fetched /\ BoundToGo) => roots # <<>>

\* two requests suspended, each at its own call of the parser
C6_Witness == Len(inflight) = 2 /\ out = Fetching("getChildren") /\ roots = <<>>

\* C7: once a fetch has succeeded the cached outline is present, for
\* every successful parser result.
C7_PresentAfterSuccess ==
    (out.kind = "children" /\ out.fetched /\ ~out.notified) => roots # <<>>

\* the outcomes of the ginkgo process with which the fetch fails
Failures == {p \in ProcessResults : ~fromDocument(p).ok}

C9_NotFoundIsSilent ==
    /\ (out.kind = "children" /\ out.notified) =>
           ~isGinkgoImportsNotFoundError([message |-> out.logged])
    /\ out.kind = "rejected" =>
           ~isGinkgoImportsNotFoundError([message |-> out.message])

\* C10: no failure of the fetch function leaves a presenter as an
\* exception or a rejected promise.
C10_NoRejection == out.kind # "rejected"

(***************************************************************************)
(* Editor and document events                                              *)
(***************************************************************************)
RefreshedByEditor == [kind |-> "refresh", by |-> "editor"]
RefreshedBySave == [kind |-> "refresh", by |-> "save"]

\* C11: a change of the active editor to an editor without a view column
\* is ignored: the bound editor and the cached outline stay as they are
\* and no refresh notification is fired.  Every other change (to a main
\* editor, or to no editor) replaces the bound editor, empties the cache
\* and fires one refresh notification.
C11_EditorChange ==
    [][\A e \in {undefined} \cup {Some(x) : x \in Editors} :
          DidChangeActiveTextEditor(e) =>
              IF e # undefined /\ e[1].viewColumn = undefined
              THEN /\ editor' = editor
                   /\ roots' = roots
                   /\ out'.kind # "refresh"
              ELSE /\ editor' = e
                   /\ roots' = <<>>
                   /\ out' = RefreshedByEditor]_vars

\* the editor whose outline the view shows has been replaced by no editor
C11_Witness ==
    /\ out = RefreshedByEditor
    /\ editor = undefined
    /\ view # <<>>
    /\ roots = <<>>

\* C12: a content-change or save event of a document that is not the bound
\* editor's, and a content-change event of the bound editor's document
\* with no content changes, leave the cached outline as it is, neither
\* cancel nor restart the debounce timer, and fire no refresh
\* notification.
C12_IgnoredEvents ==
    [][/\ \A doc \in Docs, n \in {0, 1} :
             (/\ DidChangeTextDocument(doc, n)
              /\ (editor = undefined \/ editor[1].document # doc \/ n = 0)) =>
                 /\ UNCHANGED <<roots, timers, documentChangedTimer>>
                 /\ out'.kind # "refresh"
       /\ \A doc \in Docs :
             (/\ DidSaveTextDocument(doc)
              /\ (editor = undefined \/ editor[1].document # doc)) =>
                 /\ UNCHANGED <<roots, timers, documentChangedTimer>>
                 /\ out'.kind # "refresh"]_vars

\* an outline is cached and a debounce timer is pending in mode onType: an
\* ignored event has something to leave alone
C12_Witness ==
    /\ roots # <<>>
    /\ timers # {}
    /\ documentChangedTimer # undefined
    /\ listeners = {"onDidChangeTextDocument"}
    /\ out = Nothing

\* C13: in mode onSave a save of the bound editor's document empties the
\* cache and fires the refresh notification in the same step; in mode
\* onType a qualifying edit empties the cache in its own step, in which
\* no notification is fired and the timer of the delayed notification is
\* set.
C13_ImmediateInvalidation ==
    [][/\ \A doc \in Docs :
             (/\ DidSaveTextDocument(doc)
              /\ listeners = {"onDidSaveTextDocument"}
              /\ editor # undefined /\ editor[1].document = doc) =>
                 /\ roots' = <<>>
                 /\ out' = RefreshedBySave
       /\ \A doc \in Docs :
             (DidChangeTextDocument(doc, 1) /\ QualifyingEdit(doc, 1)) =>
                 /\ roots' = <<>>
                 /\ out'.kind # "refresh"
                 /\ \E t \in timers' :
                       /\ t.deadline = clock + updateOnTypeDelay
                       /\ documentChangedTimer' = Some(t.id)]_vars

\* an edit of this instant has emptied the cache of the outline the view
\* shows, and its notification is still to come
C13_Witness ==
    /\ burst # undefined /\ burst[1].last = clock
    /\ roots = <<>>
    /\ view # <<>>
    /\ \E t \in timers : t.deadline > clock /\ documentChangedTimer = Some(t.id)
    /\ out = Nothing

\* C14: exactly one of the two document event streams is subscribed, the
\* one the last setUpdateOn selected (setUpdateOn leaves its stream alone
\* subscribed); in mode onSave a content-change event neither empties the
\* cache nor touches a timer, and in mode onType a save event neither
\* empties the cache nor fires a notification.
C14_OneStream ==
    /\ [](/\ Cardinality(listeners) = 1
          /\ updateListener # undefined
          /\ listeners = {updateListener[1]})
    /\ [][/\ \A updateOn \in UpdateOnValues :
                setUpdateOn(updateOn) => listeners' = {eventOf(updateOn)}
          /\ \A doc \in Docs, n \in {0, 1} :
                (/\ DidChangeTextDocument(doc, n)
                 /\ listeners = {"onDidSaveTextDocument"}) =>
                    UNCHANGED <<roots, timers, documentChangedTimer>>
          /\ \A doc \in Docs :
                (/\ DidSaveTextDocument(doc)
                 /\ listeners = {"onDidChangeTextDocument"}) =>
                    /\ roots' = roots
                    /\ out'.kind # "refresh"]_vars

\* the mode has been switched from onType, whose timer is still pending,
\* to onSave
C14_Witness ==
    /\ listeners = {"onDidSaveTextDocument"}
    /\ updateListener = Some("onDidSaveTextDocument")
    /\ timers # {}

(***************************************************************************)
(* The click state                                                         *)
(***************************************************************************)
\* C18: every classified activation, Highlight or Navigate, records its
\* node and the current time, so that the next activation is compared
\* with it and with nothing before it; an activation of the node of a
\* Navigate less than the threshold after it is a Navigate again.
C18_Rearmed ==
    out.kind = "click" =>
        /\ lastClickedNode = Some(out.node)
        /\ lastClickedTime = Some(clock)
        /\ lastClass = out.class
        /\ (/\ out.prior # undefined
            /\ out.prior[1].class = "Navigate"
            /\ out.prior[1].same
            /\ out.prior[1].elapsed < doubleClickThreshold) => out.class = "Navigate"

\* a Navigate some time after a Navigate of the same node
C18_Witness ==
    /\ out.kind = "click" /\ out.class = "Navigate"
    /\ out.prior # undefined
    /\ out.prior[1].class = "Navigate"
    /\ out.prior[1].elapsed > 0

\* C19: the recorded activation is compared by (start, end): an
\* activation of a node of a later fetch that has the (start, end) of the
\* recorded node, less than the threshold after it, is a Navigate; and
\* nothing but an activation changes the record, no invalidation of the
\* cache and no fetch.
C19_KeyedOnPosition ==
    /\ [](/\ out.kind = "click"
          /\ out.prior # undefined
          /\ ~out.prior[1].identical
          /\ out.prior[1].same
          /\ out.prior[1].elapsed < doubleClickThreshold
          => out.class = "Navigate")
    /\ [][(lastClickedNode' # lastClickedNode \/ lastClickedTime' # lastClickedTime) =>
             \E n \in shown : clickTreeItem(n)]_vars

\* a Navigate of a node fetched after the activation it is compared with
C19_Witness ==
    /\ out.kind = "click" /\ out.class = "Navigate"
    /\ out.prior # undefined
    /\ out.prior[1].same
    /\ ~out.prior[1].identical
    /\ roots # <<>>

(***************************************************************************)
(* The debounce timer                                                      *)
(***************************************************************************)
\* C20: at most one debounce timer is pending; the timer notifications
\* never outnumber the bursts of qualifying edits, and so not the edits;
\* a pending timer is the one of the last qualifying edit (its handle is
\* the stored one and it is due that edit's delay after it), so that no
\* timer an edit has replaced fires a notification.
C20_OneTimer ==
    /\ [](/\ Cardinality(timers) <= 1
          /\ owed >= 0
          /\ \A t \in timers :
                /\ documentChangedTimer = Some(t.id)
                /\ burst # undefined
                /\ t.deadline = burst[1].last + burst[1].delay)
    /\ [][\A t \in timers :
             timerCallback(t) =>
                 /\ documentChangedTimer = Some(t.id)
                 /\ t.deadline = burst[1].last + burst[1].delay
                 /\ timers' = {}]_vars

\* an edit has replaced the timer of an edit made before it, and its own
\* timer is pending
C20_Witness ==
    /\ burst # undefined
    /\ burst[1].first < burst[1].last
    /\ Cardinality(timers) = 1
    /\ \A t \in timers : t.deadline = burst[1].last + burst[1].delay /\ t.deadline > clock

(***************************************************************************)
(* The builder                                                             *)
(***************************************************************************)
RECURSIVE Below(_, _)
\* the objects of the records under the record at path
Below(nested, path) ==
    IF hasNodes(nodeAt(nested, path))
    THEN UNION { {path \o <<c>>} \cup Below(nested, path \o <<c>>) :
                    c \in 1..Len(nodeAt(nested, path).nodes) }
    ELSE {}

\* the objects of a forest: its nodes
Objects(nested) == UNION { {<<n>>} \cup Below(nested, <<n>>) : n \in 1..Len(nested) }

\* p is a proper ancestor of q
Ancestor(p, q) == Len(p) < Len(q) /\ SubSeq(q, 1, Len(p)) = p

\* p is, or is under, an earlier sibling of q or of an ancestor of q
Earlier(p, q) ==
    \E k \in 1..Len(p) :
        /\ k <= Len(q)
        /\ SubSeq(p, 1, k - 1) = SubSeq(q, 1, k - 1)
        /\ p[k] < q[k]

\* C15: for every forest the parser prints, fromJSON returns, and the flat
\* list it returns is the pre-order traversal of the forest: it has as
\* many entries as the forest has nodes, it starts with the first root,
\* it holds every node once, a node comes after its ancestors and after
\* its earlier siblings and what is under them; nested is the forest
\* unchanged.
C15_FlatIsPreOrder ==
    got # undefined =>
        /\ ~got[1].threw
        /\ Len(got[1].flat) = Cardinality(Objects(input))
        /\ Len(got[1].objects) = Len(got[1].flat)
        /\ \A i \in 1..Len(got[1].flat) :
              got[1].flat[i] = nodeAt(input, got[1].objects[i])
        /\ input # <<>> => got[1].objects[1] = <<1>> /\ got[1].flat[1] = input[1]
        /\ \A o \in Objects(input) :
              Cardinality({i \in 1..Len(got[1].objects) : got[1].objects[i] = o}) = 1
        /\ \A i, j \in 1..Len(got[1].objects) :
              (\/ Ancestor(got[1].objects[i], got[1].objects[j])
               \/ Earlier(got[1].objects[i], got[1].objects[j])) => i < j
        /\ got[1].nested = input

\* C16: when fromJSON has built an outline, the parent of every child of
\* a node is that node, every node that is not a root is once among the
\* children of its parent, and no root has a parent.
C16_ParentLinks ==
    (got # undefined /\ ~got[1].threw) =>
        LET parent == got[1].parent
        IN  /\ \A n \in Objects(input) :
                  \A c \in 1..Len(nodeAt(input, n).nodes) :
                      /\ (n \o <<c>>) \in DOMAIN parent
                      /\ parent[n \o <<c>>] = n
            /\ \A o \in Objects(input) :
                  Len(o) > 1 =>
                      /\ o \in DOMAIN parent
                      /\ Cardinality({c \in 1..Len(nodeAt(input, parent[o]).nodes) :
                                         parent[o] \o <<c>> = o}) = 1
            /\ \A n \in 1..Len(input) : <<n>> \notin DOMAIN parent

\* an outline three levels deep and more has been built, with a node of
\* several children
C16_Witness ==
    /\ got # undefined
    /\ ~got[1].threw
    /\ \E o \in DOMAIN got[1].parent : Len(o) > 3
    /\ \E o \in DOMAIN got[1].parent : o[Len(o)] > 1

\* a record of the forest has no "nodes"
MissingNodes == \E o \in Objects(input) : ~hasNodes(nodeAt(input, o))

\* C17: a record without "nodes" is a node without children and no
\* error: fromJSON on a forest with such records returns, with every node
\* in the flat list and the parent of every node that is not a root.
C17_MissingNodesIsNoChildren ==
    (got # undefined /\ MissingNodes) =>
        /\ ~got[1].threw
        /\ Len(got[1].flat) = Cardinality(Objects(input))
        /\ \A o \in Objects(input) :
              Len(o) > 1 =>
                  /\ o \in DOMAIN got[1].parent
                  /\ got[1].parent[o] = SubSeq(o, 1, Len(o) - 1)

====
